---- MODULE Spec2Model ----
(***************************************************************************)
(* Model of src-tauri/main.rs: the shared AppState (config, timer_running), *)
(* the commands save_config, load_config_from_file, start_auto_commit,      *)
(* stop_auto_commit, the spawned scheduler loop and the run_commit          *)
(* pipeline, run both from the loop and as a manual command.                *)
(*                                                                         *)
(* Messages are sequences of tokens: a token is one whitespace character,   *)
(* one quote character, or a run of other characters. Diffs are sequences   *)
(* of segments: a segment is n characters of w bytes each in UTF-8.         *)
(***************************************************************************)
EXTENDS Integers, Sequences, FiniteSets, TLC

\* Number of task slots for spawned scheduler loops.
MaxLoops == 2
\* Longest output of `git diff`, in segments, and longest generated text, in
\* tokens, of the specification of the texts.
MaxSegs == 2
MaxTextLen == 3
Loops == 1..MaxLoops
\* The manual invocation of run_commit (not a loop's).
Manual == 0
Runs == Loops \cup {Manual}

----------------------------------------------------------------------------
\* Configuration

\* impl Default for AppConfig
DefaultConfig ==
    [repo_path |-> "", auto_commit_enabled |-> FALSE, interval_minutes |-> 30,
     auto_start |-> FALSE, gemini_api_key |-> ""]

\* The path of the one git repository of the model; every other path is none.
RepoDir == "/repo"

\* Configurations the front end passes to save_config: the defaults (no path,
\* no key), a usable one, and one with a zero interval.
UsableConfig ==
    [repo_path |-> RepoDir, auto_commit_enabled |-> TRUE, interval_minutes |-> 1,
     auto_start |-> FALSE, gemini_api_key |-> "key"]

ZeroIntervalConfig ==
    [repo_path |-> RepoDir, auto_commit_enabled |-> TRUE, interval_minutes |-> 0,
     auto_start |-> TRUE, gemini_api_key |-> "key"]

ConfigInputs == {DefaultConfig, UsableConfig, ZeroIntervalConfig}

\* Paths the front end passes to run_commit.
PathInputs == {RepoDir, ""}

----------------------------------------------------------------------------
\* Texts

Sentinel == <<"No changes to commit">>

IsSpace(t) == t \in {" ", "\n"}

RECURSIVE TrimStartBy(_, _)
TrimStartBy(s, drop) ==
    IF s # <<>> /\ Head(s) \in drop THEN TrimStartBy(Tail(s), drop) ELSE s

RECURSIVE TrimEndBy(_, _)
TrimEndBy(s, drop) ==
    IF s # <<>> /\ s[Len(s)] \in drop
    THEN TrimEndBy(SubSeq(s, 1, Len(s) - 1), drop) ELSE s

\* str::trim
Trim(s) == TrimEndBy(TrimStartBy(s, {" ", "\n"}), {" ", "\n"})

\* str::trim_matches(c): every leading and trailing c
TrimMatches(s, c) == TrimEndBy(TrimStartBy(s, {c}), {c})

\* clean_message
CleanMessage(commit_message) ==
    Trim(TrimMatches(TrimMatches(commit_message, "\""), "'"))

\* Tokens of the generated texts, and the texts of up to MaxTextLen tokens.
TextTokens == {" ", "\"", "'", "fix"}
TextInputs == UNION {[1..k -> TextTokens] : k \in 1..MaxTextLen}

----------------------------------------------------------------------------
\* Diffs

\* The limit of line 157.
DiffLimit == 10000

\* n characters of w bytes each; in the stdout of a command, w = 0 stands for
\* n bytes that are not valid UTF-8.
Seg(w, n) == [w |-> w, n |-> n]

\* format!: the concatenation of two texts (neighbouring segments of one width
\* are one segment).
Concat(a, b) ==
    IF a = <<>> THEN b
    ELSE IF b = <<>> THEN a
    ELSE IF a[Len(a)].w = b[1].w
    THEN SubSeq(a, 1, Len(a) - 1) \o <<Seg(b[1].w, a[Len(a)].n + b[1].n)>> \o Tail(b)
    ELSE a \o b

\* String::from_utf8_lossy: each invalid byte becomes U+FFFD, of three bytes.
RECURSIVE FromUtf8Lossy(_)
FromUtf8Lossy(stdout) ==
    IF stdout = <<>> THEN <<>>
    ELSE Concat(<<Seg(IF Head(stdout).w = 0 THEN 3 ELSE Head(stdout).w,
                      Head(stdout).n)>>,
                FromUtf8Lossy(Tail(stdout)))

\* str::len: the length in bytes.
RECURSIVE ByteLen(_)
ByteLen(t) == IF t = <<>> THEN 0 ELSE Head(t).w * Head(t).n + ByteLen(Tail(t))

\* str::is_char_boundary(k)
RECURSIVE IsCharBoundary(_, _)
IsCharBoundary(t, k) ==
    IF k = 0 THEN TRUE
    ELSE IF t = <<>> THEN FALSE
    ELSE IF k >= Head(t).w * Head(t).n
    THEN IsCharBoundary(Tail(t), k - Head(t).w * Head(t).n)
    ELSE k % Head(t).w = 0

\* &t[..k], for k a char boundary of t
RECURSIVE SliceTo(_, _)
SliceTo(t, k) ==
    IF k = 0 \/ t = <<>> THEN <<>>
    ELSE IF k >= Head(t).w * Head(t).n
    THEN <<Head(t)>> \o SliceTo(Tail(t), k - Head(t).w * Head(t).n)
    ELSE <<Seg(Head(t).w, k \div Head(t).w)>>

\* "\n\n"
Separator == <<Seg(1, 2)>>

\* Line 158: the slice panics unless byte DiffLimit is a char boundary.
SlicePanics(diff_content) ==
    ByteLen(diff_content) > DiffLimit /\ ~IsCharBoundary(diff_content, DiffLimit)

\* Lines 157-161: diff_text.
DiffText(diff_stat, diff_content) ==
    IF ByteLen(diff_content) > DiffLimit
    THEN Concat(Concat(diff_stat, Separator), SliceTo(diff_content, DiffLimit))
    ELSE Concat(Concat(diff_stat, Separator), diff_content)

----------------------------------------------------------------------------
\* The code of the commands and of the loop, as the mutexes see it: the
\* instructions that lock and unlock AppState.config and
\* AppState.timer_running, those that read or write what a mutex guards, and
\* those that block or await (file system, git, network, timer), in the order
\* of the source, along the path that returns last.

Ins(op, arg) == [op |-> op, arg |-> arg]

\* Instructions during which the task blocks or is suspended.
BlockingOps == {"fs", "git", "net", "wait"}

\* save_config: the guard of line 244 lives until the function returns.
SaveConfigCode ==
    << Ins("lock", "config"),              \* 244
       Ins("mem", "config"),               \* 245
       Ins("fs", "create_dir_all"),        \* 248 (get_config_path, 288)
       Ins("fs", "write"),                 \* 252
       Ins("unlock", "config") >>          \* 256

\* get_config
GetConfigCode ==
    << Ins("lock", "config"),              \* 260
       Ins("mem", "config"),               \* 261
       Ins("unlock", "config") >>          \* 262

\* load_config_from_file, with the file present
LoadConfigCode ==
    << Ins("fs", "create_dir_all"),        \* 266 (get_config_path, 288)
       Ins("fs", "read_to_string"),        \* 268-269
       Ins("lock", "config"),              \* 275
       Ins("mem", "config"),               \* 276
       Ins("unlock", "config") >>          \* 279

\* run_commit
RunCommitCode ==
    << Ins("git", "open"),                 \* 113
       Ins("git", "statuses"),             \* 114
       Ins("lock", "config"),              \* 121
       Ins("mem", "config"),               \* 122
       Ins("unlock", "config"),            \* 123
       Ins("git", "add"),                  \* 130
       Ins("git", "diff --stat"),          \* 138
       Ins("git", "diff"),                 \* 146
       Ins("net", "post"),                 \* 189-193
       Ins("net", "json"),                 \* 201-203
       Ins("git", "commit"),               \* 221
       Ins("git", "push") >>               \* 230

\* start_auto_commit that keeps the guard of the configuration to its end.
StartAutoCommitCodeWithoutDrop ==
    << Ins("lock", "config"),
       Ins("mem", "config"),
       Ins("lock", "timer_running"),
       Ins("mem", "timer_running"),
       Ins("unlock", "timer_running"),
       Ins("spawn", "loop"),
       Ins("unlock", "config") >>

\* start_auto_commit
StartAutoCommitCode ==
    << Ins("lock", "config"),              \* 299
       Ins("mem", "config"),               \* 300-301
       Ins("unlock", "config"),            \* 302
       Ins("lock", "timer_running"),       \* 304
       Ins("mem", "timer_running"),        \* 305-308
       Ins("unlock", "timer_running"),     \* 309
       Ins("spawn", "loop") >>             \* 313

\* stop_auto_commit: the guard of line 343 lives until the function returns.
StopAutoCommitCode ==
    << Ins("lock", "timer_running"),       \* 343
       Ins("mem", "timer_running"),        \* 344
       Ins("unlock", "timer_running") >>   \* 346

\* One round of the loop of the spawned task.
LoopCode ==
    << Ins("wait", "tick"),                \* 317
       Ins("lock", "timer_running"),       \* 319
       Ins("mem", "timer_running"),        \* 320
       Ins("unlock", "timer_running") >>   \* 323
    \o RunCommitCode                       \* 325
    \o << Ins("emit", "commit-status") >>  \* 326-333

\* The tasks: one call of each command in progress, and the spawned task.
Tasks ==
    {"save_config", "get_config", "load_config_from_file", "run_commit",
     "start_auto_commit", "stop_auto_commit", "loop"}

Code(t) ==
    CASE t = "save_config" -> SaveConfigCode
      [] t = "get_config" -> GetConfigCode
      [] t = "load_config_from_file" -> LoadConfigCode
      [] t = "run_commit" -> RunCommitCode
      [] t = "start_auto_commit" -> StartAutoCommitCode
      [] t = "stop_auto_commit" -> StopAutoCommitCode
      [] t = "loop" -> LoopCode

----------------------------------------------------------------------------
\* State

VARIABLES
    config,         \* AppState.config: the in-memory AppConfig
    saving,         \* <<c>> while save_config(c) holds the config lock, else <<>>
    file,           \* config.json: <<c>> when it exists, else <<>>
    timer_running,  \* AppState.timer_running
    starter,        \* the start_auto_commit calls, by caller
    loop,           \* the spawned loop tasks, by slot
    run,            \* the run_commit invocations: one per loop, and the manual one
    repo,           \* the repository at RepoDir and its remote
    output,         \* what the latest step returned to the front end or emitted
    tasks           \* by task: its place in its code and the mutexes it holds

vars ==
    <<config, saving, file, timer_running, starter, loop, run, repo, output, tasks>>

\* Callers of start_auto_commit: two calls can be in progress at once.
Starters == {1, 2}
\* The one caller of the specifications that are not about concurrent starts.
SingleStarter == {1}

IdleStarter == [pc |-> "idle", interval_minutes |-> 0, repo_path |-> ""]

\* No task in the slot.
FreeLoop ==
    [pc |-> "free", interval_minutes |-> 0, repo_path |-> "", period |-> 0,
     stop_seen |-> FALSE, stop_in_run |-> FALSE]

\* No invocation in progress. did lists the stages the invocation has reached
\* that act on the repository or the network; diff holds diff_stat,
\* diff_content and diff_text until the request is sent; resp holds the response
\* of the remote service once it has arrived.
IdleRun ==
    [pc |-> "idle", path |-> "", api_key |-> "", diff |-> <<>>, resp |-> <<>>,
     msg |-> <<>>, commit_rc |-> "none", did |-> {}]

Init ==
    /\ config = DefaultConfig
    /\ saving = <<>>
    /\ file = <<>>
    /\ timer_running = FALSE
    /\ starter = [s \in Starters |-> IdleStarter]
    /\ loop = [l \in Loops |-> FreeLoop]
    /\ run = [r \in Runs |-> IdleRun]
    /\ repo = [wt |-> FALSE, index |-> FALSE, ahead |-> FALSE]
    /\ output = <<>>
    /\ tasks = [t \in Tasks |-> [pc |-> 1, held |-> {}]]

\* The config mutex is free (std::sync::Mutex::lock returns).
ConfigLockFree == saving = <<>>

\* A command's Result as the front end receives it, or the Result of a loop's
\* run_commit with the events the loop emitted for it. config holds the
\* AppConfig of an Ok(AppConfig).
Out(cmd, who, ok, text, site, r, push_rc, events) ==
    <<[cmd |-> cmd, who |-> who, ok |-> ok, text |-> text, site |-> site,
       did |-> r.did, resp |-> r.resp, commit_rc |-> r.commit_rc,
       push_rc |-> push_rc, events |-> events, config |-> <<>>]>>

\* The Result of a configuration command: Ok(()), Ok(c) or Err(text).
ConfigOut(cmd, ok, text, c) ==
    <<[Out(cmd, 0, ok, text, "end", IdleRun, "none", <<>>)[1]
          EXCEPT !.config = c]>>

----------------------------------------------------------------------------
\* Configuration commands

\* save_config, lines 244-245: take the lock and replace the configuration.
SaveConfigReplace(c) ==
    /\ ConfigLockFree
    /\ config' = c
    /\ saving' = <<c>>
    /\ output' = <<>>
    /\ UNCHANGED <<tasks, file, timer_running, starter, loop, run, repo>>

\* save_config that puts the stored configuration back when it cannot persist.
SaveConfigPersistOrRestore(written) ==
    /\ saving # <<>>
    /\ file' = IF written THEN saving ELSE file
    /\ config' = IF written THEN config
                 ELSE IF file # <<>> THEN file[1] ELSE DefaultConfig
    /\ saving' = <<>>
    /\ output' = IF written
                 THEN ConfigOut("save_config", TRUE, <<>>, <<>>)
                 ELSE ConfigOut("save_config", FALSE, <<"Failed to save config: ">>,
                                <<>>)
    /\ UNCHANGED <<tasks, timer_running, starter, loop, run, repo>>

\* save_config, lines 247-255: persist (the directory, the JSON, the write),
\* return Ok(()) or the error, and release the lock on return.
SaveConfigPersist(written) ==
    /\ saving # <<>>
    /\ file' = IF written THEN saving ELSE file
    /\ config' = config
    /\ saving' = <<>>
    /\ output' = IF written
                 THEN ConfigOut("save_config", TRUE, <<>>, <<>>)
                 ELSE ConfigOut("save_config", FALSE, <<"Failed to save config: ">>,
                                <<>>)
    /\ UNCHANGED <<tasks, timer_running, starter, loop, run, repo>>

\* get_config: a clone of the configuration, taken under the lock.
GetConfig ==
    /\ ConfigLockFree
    /\ output' = ConfigOut("get_config", TRUE, <<>>, <<config>>)
    /\ UNCHANGED <<tasks, config, saving, file, timer_running, starter, loop, run, repo>>

\* load_config_from_file: the file's configuration replaces the one in memory;
\* with no file, or when reading or parsing fails, nothing changes.
LoadConfigFromFile(readable) ==
    /\ IF file # <<>> /\ readable
       THEN /\ ConfigLockFree
            /\ config' = file[1]
       ELSE config' = config
    /\ output' = <<>>
    /\ UNCHANGED <<tasks, saving, file, timer_running, starter, loop, run, repo>>

----------------------------------------------------------------------------
\* Scheduler

\* u64 multiplication of line 314; the intervals of the model's
\* configurations are far from the ones whose product leaves 64 bits.
PeriodSecs(interval_minutes) == interval_minutes * 60

\* start_auto_commit, lines 299-302: the snapshot of interval and path.
StartSnapshot(s) ==
    /\ starter[s].pc = "idle"
    /\ ConfigLockFree
    /\ starter' = [starter EXCEPT ![s] =
          [pc |-> "snap", interval_minutes |-> config.interval_minutes,
           repo_path |-> config.repo_path]]
    /\ output' = <<>>
    /\ UNCHANGED <<tasks, config, saving, file, timer_running, loop, run, repo>>

\* The loop a start spawns (line 313): it owns the snapshot.
SpawnedLoop(s) ==
    [pc |-> "new", interval_minutes |-> starter[s].interval_minutes,
     repo_path |-> starter[s].repo_path, period |-> 0,
     stop_seen |-> FALSE, stop_in_run |-> FALSE]

\* start_auto_commit without the check of lines 305-307.
StartWithoutCheck(s, slots) ==
    /\ starter[s].pc = "snap"
    /\ \E l \in slots :
          /\ loop[l].pc = "free"
          /\ \A k \in slots : k < l => loop[k].pc # "free"
          /\ timer_running' = TRUE
          /\ loop' = [loop EXCEPT ![l] = SpawnedLoop(s)]
          /\ output' = Out("start_auto_commit", s, TRUE, <<>>, "end", IdleRun,
                           "none", <<>>)
    /\ starter' = [starter EXCEPT ![s] = IdleStarter]
    /\ UNCHANGED <<tasks, config, saving, file, run, repo>>

\* start_auto_commit without the assignment of line 308.
StartCheckWithoutSet(s, slots) ==
    /\ starter[s].pc = "snap"
    /\ IF timer_running
       THEN /\ output' = Out("start_auto_commit", s, FALSE,
                             <<"Timer is already running">>, "check", IdleRun,
                             "none", <<>>)
            /\ UNCHANGED <<timer_running, loop>>
       ELSE \E l \in slots :
            /\ loop[l].pc = "free"
            /\ \A k \in slots : k < l => loop[k].pc # "free"
            /\ timer_running' = timer_running
            /\ loop' = [loop EXCEPT ![l] = SpawnedLoop(s)]
            /\ output' = Out("start_auto_commit", s, TRUE, <<>>, "end", IdleRun,
                             "none", <<>>)
    /\ starter' = [starter EXCEPT ![s] = IdleStarter]
    /\ UNCHANGED <<tasks, config, saving, file, run, repo>>

\* start_auto_commit, lines 304-338: check and set under the lock, then spawn
\* (into the first free one of the task slots).
StartCheckAndSpawn(s, slots) ==
    /\ starter[s].pc = "snap"
    /\ IF timer_running
       THEN /\ output' = Out("start_auto_commit", s, FALSE,
                             <<"Timer is already running">>, "check", IdleRun,
                             "none", <<>>)
            /\ UNCHANGED <<timer_running, loop>>
       ELSE \E l \in slots :
            /\ loop[l].pc = "free"
            /\ \A k \in slots : k < l => loop[k].pc # "free"
            /\ timer_running' = TRUE
            /\ loop' = [loop EXCEPT ![l] = SpawnedLoop(s)]
            /\ output' = Out("start_auto_commit", s, TRUE, <<>>, "end", IdleRun,
                             "none", <<>>)
    /\ starter' = [starter EXCEPT ![s] = IdleStarter]
    /\ UNCHANGED <<tasks, config, saving, file, run, repo>>

\* stop_auto_commit. stop_seen and stop_in_run record, for each task alive,
\* that the call happened, and that it happened during a run of the task.
StopAutoCommit ==
    /\ timer_running' = FALSE
    /\ loop' = [l \in Loops |->
          IF loop[l].pc = "free" THEN loop[l]
          ELSE [loop[l] EXCEPT !.stop_seen = TRUE,
                               !.stop_in_run = (@ \/ loop[l].pc = "run")]]
    /\ output' = <<>>
    /\ UNCHANGED <<tasks, config, saving, file, starter, run, repo>>

\* Line 314: tokio's interval panics on a zero period, which ends the task.
LoopCreateInterval(l) ==
    /\ loop[l].pc = "new"
    /\ LET p == PeriodSecs(loop[l].interval_minutes) IN
          loop' = [loop EXCEPT ![l] =
              IF p = 0 THEN FreeLoop ELSE [@ EXCEPT !.pc = "wait", !.period = p]]
    /\ output' = <<>>
    /\ UNCHANGED <<tasks, config, saving, file, timer_running, starter, run, repo>>

\* run_commit is entered with a path.
EnteredRun(path) == [IdleRun EXCEPT !.pc = "open", !.path = path]

\* A loop that reads the path from the configuration at each tick.
LoopTickLiveConfig(l) ==
    /\ loop[l].pc = "wait"
    /\ IF ~timer_running
       THEN /\ loop' = [loop EXCEPT ![l] = FreeLoop]
            /\ UNCHANGED run
       ELSE /\ loop' = [loop EXCEPT ![l].pc = "run", ![l].stop_in_run = FALSE]
            /\ run' = [run EXCEPT ![l] = EnteredRun(config.repo_path)]
    /\ output' = <<>>
    /\ UNCHANGED <<tasks, config, saving, file, timer_running, starter, repo>>

\* Lines 317-325: a tick, the check of the flag, and the call of run_commit.
LoopTick(l) ==
    /\ loop[l].pc = "wait"
    /\ IF ~timer_running
       THEN /\ loop' = [loop EXCEPT ![l] = FreeLoop]
            /\ UNCHANGED run
       ELSE /\ loop' = [loop EXCEPT ![l].pc = "run", ![l].stop_in_run = FALSE]
            /\ run' = [run EXCEPT ![l] = EnteredRun(loop[l].repo_path)]
    /\ output' = <<>>
    /\ UNCHANGED <<tasks, config, saving, file, timer_running, starter, repo>>

\* Lines 326-333: what the loop emits for the Result of run_commit.
Emitted(ok, text) ==
    IF ok
    THEN IF text # Sentinel
         THEN <<[event |-> "commit-status", payload |-> text]>>
         ELSE <<>>
    ELSE <<[event |-> "commit-error", payload |-> text]>>

----------------------------------------------------------------------------
\* The repository and the remote service

\* How a std::process::Command ends: it could not be spawned (the only case
\* .status() and .output() report as Err), or it ran and exited.
CommandResults == {"spawn_failed", "zero", "nonzero"}

\* A status that also lists the commits the remote does not have.
StatusesEmptyCountingAhead == ~repo.wt /\ ~repo.index /\ ~repo.ahead

\* repo.statuses(None).is_empty()
StatusesEmpty == ~repo.wt /\ ~repo.index

\* `git add .` exiting zero: every pending change is staged.
GitAdd(rp) == [rp EXCEPT !.index = rp.index \/ rp.wt, !.wt = FALSE]

\* `git commit -m msg` can exit zero only with staged changes and a message.
CanCommit(rp, msg) == rp.index /\ msg # <<>>

\* `git commit -m msg` exiting zero: the local branch is ahead of the remote.
GitCommit(rp) == [rp EXCEPT !.index = FALSE, !.ahead = TRUE]

\* `git push` exiting zero: the remote has every local commit.
GitPush(rp) == [rp EXCEPT !.ahead = FALSE]

\* The outputs of `git diff --cached --stat` and of `git diff --cached` for
\* one index: both are empty when nothing is staged, and else the stat, of one
\* line for each file, is the shorter.
DiffsOfOneIndex(stat, body) ==
    /\ (stat = <<>>) = (body = <<>>)
    /\ ByteLen(FromUtf8Lossy(stat)) <= ByteLen(FromUtf8Lossy(body))

\* Outputs of the two diffs: the stat of one file with a body below the limit
\* of line 157, with one above it, and with one above it that has a three-byte
\* character across byte 10000.
DiffOutputs ==
    {[stat |-> <<Seg(1, 60)>>, body |-> body] :
        body \in {<<Seg(1, 200)>>, <<Seg(1, 12000)>>, <<Seg(1, 9999), Seg(3, 100)>>}}

\* The outputs of up to MaxSegs segments: of ASCII, of three-byte characters
\* and of invalid bytes, in lengths around the limit.
SegWidths == {0, 1, 3}
SegCounts == {1, 3334, 9999, 10001}
WideBodies ==
    {t \in UNION {[1..k -> {Seg(w, n) : w \in SegWidths, n \in SegCounts}] :
                      k \in 0..MaxSegs} :
        \A i \in 1..(Len(t) - 1) : t[i].w # t[i + 1].w}

\* Stats: none, of one file, and of some hundred files.
WideStats == {<<>>, <<Seg(1, 60)>>, <<Seg(1, 30000)>>}

WideDiffOutputs ==
    {d \in [stat : WideStats, body : WideBodies] : DiffsOfOneIndex(d.stat, d.body)}

\* Texts the remote service generates.
GeneratedTexts ==
    { <<"feat(x): add y">>,
      <<"\"", "feat(x): add y", "\"", "\n">>,
      <<"No changes to commit">>,
      <<"'", "'">> }

Resp(transport, success, body_read, body, json, candidates) ==
    [transport |-> transport, success |-> success, body_read |-> body_read,
     body |-> body, json |-> json, candidates |-> candidates]

\* What the POST of lines 189-193 can end with: a transport error, a
\* non-success status with a body (which may fail to arrive), or a success
\* status with a body that is or is not the JSON of a GeminiResponse.
Responses ==
    { Resp(FALSE, FALSE, FALSE, <<>>, FALSE, <<>>),
      Resp(TRUE, FALSE, TRUE, <<"invalid key">>, FALSE, <<>>),
      Resp(TRUE, FALSE, FALSE, <<"invalid key">>, FALSE, <<>>),
      Resp(TRUE, TRUE, TRUE, <<>>, FALSE, <<>>),
      Resp(TRUE, TRUE, TRUE, <<>>, TRUE, <<>>),
      Resp(TRUE, TRUE, TRUE, <<>>, TRUE, << <<>> >>) }
    \cup { Resp(TRUE, TRUE, TRUE, <<>>, TRUE, << <<t>> >>) : t \in GeneratedTexts }

----------------------------------------------------------------------------
\* run_commit

\* Invocation r, in state rr, returns Ok(text) or Err(text) from the return
\* statement named site. The manual invocation's Result goes to the front end;
\* a loop matches on the Result (lines 325-334) and waits for its next tick.
Returns(r, ok, text, site, rr, push_rc) ==
    /\ run' = [run EXCEPT ![r] = IdleRun]
    /\ IF r = Manual
       THEN /\ loop' = loop
            /\ output' = Out("run_commit", r, ok, text, site, rr, push_rc, <<>>)
       ELSE /\ loop' = [loop EXCEPT ![r].pc = "wait"]
            /\ output' = Out("run_commit", r, ok, text, site, rr, push_rc,
                             Emitted(ok, text))

\* Invocation r goes on, in state rr.
Continues(r, rr) ==
    /\ run' = [run EXCEPT ![r] = rr]
    /\ loop' = loop
    /\ output' = <<>>

\* The task of invocation r panics: a loop's task ends with it.
Panics(r) ==
    /\ run' = [run EXCEPT ![r] = IdleRun]
    /\ loop' = [l \in Loops |-> IF l = r THEN FreeLoop ELSE loop[l]]
    /\ output' = <<>>

\* run_commit without the early return of lines 116-118.
RunOpenWithoutStatus(r) ==
    /\ run[r].pc = "open"
    /\ IF run[r].path # RepoDir
       THEN Returns(r, FALSE, <<"could not find repository">>, "open", run[r], "none")
       ELSE Continues(r, [run[r] EXCEPT !.pc = "credential"])
    /\ UNCHANGED <<tasks, config, saving, file, timer_running, starter, repo>>

\* Lines 113-118: open the repository and read its status.
RunOpen(r) ==
    /\ run[r].pc = "open"
    /\ IF run[r].path # RepoDir
       THEN Returns(r, FALSE, <<"could not find repository">>, "open", run[r], "none")
       ELSE IF StatusesEmpty
       THEN Returns(r, TRUE, Sentinel, "status", run[r], "none")
       ELSE Continues(r, [run[r] EXCEPT !.pc = "credential"])
    /\ UNCHANGED <<tasks, config, saving, file, timer_running, starter, repo>>

\* run_commit with `git add .` moved before the check of the key.
RunCredentialAfterAdd(r) ==
    /\ run[r].pc = "credential"
    /\ ConfigLockFree
    /\ IF config.gemini_api_key = ""
       THEN Returns(r, FALSE, <<"Gemini API Key not configured.">>, "credential",
                    run[r], "none")
       ELSE Continues(r, [run[r] EXCEPT !.pc = "stage",
                                        !.api_key = config.gemini_api_key])
    /\ repo' = GitAdd(repo)
    /\ UNCHANGED <<tasks, config, saving, file, timer_running, starter>>

\* Lines 120-127: copy the API key out of the configuration and check it.
RunCredential(r) ==
    /\ run[r].pc = "credential"
    /\ ConfigLockFree
    /\ IF config.gemini_api_key = ""
       THEN Returns(r, FALSE, <<"Gemini API Key not configured.">>, "credential",
                    run[r], "none")
       ELSE Continues(r, [run[r] EXCEPT !.pc = "stage",
                                        !.api_key = config.gemini_api_key])
    /\ UNCHANGED <<tasks, config, saving, file, timer_running, starter, repo>>

\* Lines 129-135: `git add .`; only a failure to spawn is an error.
RunStage(r, rc) ==
    /\ run[r].pc = "stage"
    /\ LET rr == [run[r] EXCEPT !.did = @ \cup {"stage"}] IN
          IF rc = "spawn_failed"
          THEN Returns(r, FALSE, <<"No such file or directory">>, "stage", rr, "none")
          ELSE Continues(r, [rr EXCEPT !.pc = "diff"])
    /\ repo' = IF rc = "zero" THEN GitAdd(repo) ELSE repo
    /\ UNCHANGED <<tasks, config, saving, file, timer_running, starter>>

\* Lines 137-167: the two diffs and the text for the prompt. Slicing the body
\* at byte 10000 panics when that byte is not a char boundary.
RunDiff(r, spawned, stat, body) ==
    /\ run[r].pc = "diff"
    /\ LET diff_stat == FromUtf8Lossy(stat)
           diff_content == FromUtf8Lossy(body) IN
          IF ~spawned
          THEN Returns(r, FALSE, <<"No such file or directory">>, "diff", run[r],
                       "none")
          ELSE IF SlicePanics(diff_content)
          THEN Panics(r)
          ELSE Continues(r, [run[r] EXCEPT
                  !.pc = "send",
                  !.diff = <<[stat |-> diff_stat, body |-> diff_content,
                              text |-> DiffText(diff_stat, diff_content)]>>])
    /\ UNCHANGED <<tasks, config, saving, file, timer_running, starter, repo>>

\* Lines 206-211: the first candidate's first part, trimmed.
CommitMessage(resp) ==
    IF resp.candidates # <<>> /\ resp.candidates[1] # <<>>
    THEN <<Trim(resp.candidates[1][1])>>
    ELSE <<>>

\* An error text that leaves the body out.
ApiErrorTextWithoutBody(resp) == <<"Gemini API error: ">>

\* Lines 197-198: the body of a non-success response, or the empty default of
\* unwrap_or_default when the body does not arrive, in the error text.
ApiErrorText(resp) ==
    <<"Gemini API error: ">> \o (IF resp.body_read THEN resp.body ELSE <<>>)

\* Lines 189-218: the request, the response and the message made of it.
RunSend(r, resp) ==
    /\ run[r].pc = "send"
    /\ LET rr == [run[r] EXCEPT !.did = @ \cup {"post"}, !.resp = <<resp>>,
                                !.diff = <<>>] IN
          IF ~resp.transport
          THEN Returns(r, FALSE, <<"Network error: ">>, "send", rr, "none")
          ELSE IF ~resp.success
          THEN Returns(r, FALSE, ApiErrorText(resp), "status_code", rr, "none")
          ELSE IF ~resp.json
          THEN Returns(r, FALSE, <<"Failed to parse response: ">>, "json", rr, "none")
          ELSE IF CommitMessage(resp) = <<>>
          THEN Returns(r, FALSE, <<"No commit message generated">>, "candidate",
                       rr, "none")
          ELSE Continues(r, [rr EXCEPT !.pc = "commit",
                                       !.msg = CleanMessage(CommitMessage(resp)[1])])
    /\ UNCHANGED <<tasks, config, saving, file, timer_running, starter, repo>>

\* Lines 220-227: `git commit -m clean_message`; the exit status is not read.
RunCommitStep(r, rc) ==
    /\ run[r].pc = "commit"
    /\ rc = "zero" => CanCommit(repo, run[r].msg)
    /\ LET rr == [run[r] EXCEPT !.did = @ \cup {"commit"}] IN
          IF rc = "spawn_failed"
          THEN Returns(r, FALSE, <<"No such file or directory">>, "commit", rr, "none")
          ELSE Continues(r, [rr EXCEPT !.pc = "push", !.commit_rc = rc])
    /\ repo' = IF rc = "zero" THEN GitCommit(repo) ELSE repo
    /\ UNCHANGED <<tasks, config, saving, file, timer_running, starter>>

\* Lines 229-236: `git push`; the exit status is not read; Ok(clean_message).
RunPush(r, rc) ==
    /\ run[r].pc = "push"
    /\ LET rr == [run[r] EXCEPT !.did = @ \cup {"push"}] IN
          IF rc = "spawn_failed"
          THEN Returns(r, FALSE, <<"No such file or directory">>, "push", rr, "none")
          ELSE Returns(r, TRUE, run[r].msg, "end", rr, rc)
    /\ repo' = IF rc = "zero" THEN GitPush(repo) ELSE repo
    /\ UNCHANGED <<tasks, config, saving, file, timer_running, starter>>

\* The front end invokes the run_commit command with a path.
ManualRunCommit(path) ==
    /\ run[Manual].pc = "idle"
    /\ run' = [run EXCEPT ![Manual] = EnteredRun(path)]
    /\ output' = <<>>
    /\ UNCHANGED <<tasks, config, saving, file, timer_running, starter, loop, repo>>

\* The user changes files of the working tree.
EditFiles ==
    /\ ~repo.wt
    /\ repo' = [repo EXCEPT !.wt = TRUE]
    /\ output' = <<>>
    /\ UNCHANGED <<tasks, config, saving, file, timer_running, starter, loop, run>>

----------------------------------------------------------------------------
\* The tasks at the mutexes

\* The instruction task t is at.
Current(t) == Code(t)[tasks[t].pc]

\* The tasks that hold mutex m.
Holders(m) == {t \in Tasks : m \in tasks[t].held}

\* Task t has executed its instruction: after the last one the command has
\* returned, or the loop has gone round, and the next call or round begins.
Advance(t, held) ==
    tasks' = [tasks EXCEPT ![t] =
                [pc |-> IF tasks[t].pc = Len(Code(t)) THEN 1 ELSE tasks[t].pc + 1,
                 held |-> held]]

\* Mutex::lock: returns when no task holds the mutex.
Acquire(t) ==
    /\ Current(t).op = "lock"
    /\ Holders(Current(t).arg) = {}
    /\ Advance(t, tasks[t].held \cup {Current(t).arg})
    /\ UNCHANGED <<config, saving, file, timer_running, starter, loop, run, repo,
                   output>>

\* The guard is dropped.
Release(t) ==
    /\ Current(t).op = "unlock"
    /\ Advance(t, tasks[t].held \ {Current(t).arg})
    /\ UNCHANGED <<config, saving, file, timer_running, starter, loop, run, repo,
                   output>>

\* Any other instruction.
Proceed(t) ==
    /\ Current(t).op \notin {"lock", "unlock"}
    /\ Advance(t, tasks[t].held)
    /\ UNCHANGED <<config, saving, file, timer_running, starter, loop, run, repo,
                   output>>

----------------------------------------------------------------------------
\* Specifications

\* The scheduler: start and stop with every task slot, and the configuration
\* commands. The working tree is never edited, so each run of a loop ends at
\* the opening of the repository or at its status.
Next ==
    \/ \E c \in ConfigInputs : SaveConfigReplace(c)
    \/ \E written \in BOOLEAN : SaveConfigPersist(written)
    \/ \E readable \in BOOLEAN : LoadConfigFromFile(readable)
    \/ \E s \in SingleStarter : StartSnapshot(s)
    \/ \E s \in SingleStarter : StartCheckAndSpawn(s, Loops)
    \/ StopAutoCommit
    \/ \E l \in Loops : LoopCreateInterval(l)
    \/ \E l \in Loops : LoopTick(l)
    \/ \E l \in Loops : RunOpen(l)

Spec == Init /\ [][Next]_vars

\* The pipeline: the manual invocation and one loop in one task slot, over a
\* working tree the user edits, with every result of the git commands and of
\* the remote service. The configuration changes through save_config.
PipelineLoops == {1}
PipelineRuns == PipelineLoops \cup {Manual}
PipelineConfigs == {DefaultConfig, UsableConfig}

NextPipeline ==
    \/ \E c \in PipelineConfigs : SaveConfigReplace(c)
    \/ \E written \in BOOLEAN : SaveConfigPersist(written)
    \/ \E s \in SingleStarter : StartSnapshot(s)
    \/ \E s \in SingleStarter : StartCheckAndSpawn(s, PipelineLoops)
    \/ StopAutoCommit
    \/ \E l \in PipelineLoops : LoopCreateInterval(l)
    \/ \E l \in PipelineLoops : LoopTick(l)
    \/ \E p \in PathInputs : ManualRunCommit(p)
    \/ EditFiles
    \/ \E r \in PipelineRuns : RunOpen(r)
    \/ \E r \in PipelineRuns : RunCredential(r)
    \/ \E r \in PipelineRuns, rc \in CommandResults : RunStage(r, rc)
    \/ \E r \in PipelineRuns, spawned \in BOOLEAN, d \in DiffOutputs :
          RunDiff(r, spawned, d.stat, d.body)
    \/ \E r \in PipelineRuns, resp \in Responses : RunSend(r, resp)
    \/ \E r \in PipelineRuns, rc \in CommandResults : RunCommitStep(r, rc)
    \/ \E r \in PipelineRuns, rc \in CommandResults : RunPush(r, rc)

SpecPipeline == Init /\ [][NextPipeline]_vars

\* Concurrent starts: two calls of start_auto_commit in progress at once, with
\* stop_auto_commit, the loops in every task slot and save_config.
StartConfigs == {UsableConfig}

NextStart ==
    \/ \E c \in StartConfigs : SaveConfigReplace(c)
    \/ \E written \in BOOLEAN : SaveConfigPersist(written)
    \/ \E s \in Starters : StartSnapshot(s)
    \/ \E s \in Starters : StartCheckAndSpawn(s, Loops)
    \/ StopAutoCommit
    \/ \E l \in Loops : LoopCreateInterval(l)
    \/ \E l \in Loops : LoopTick(l)
    \/ \E l \in Loops : RunOpen(l)

SpecStart == Init /\ [][NextStart]_vars

\* The configuration: every configuration command, and the manual invocation
\* of run_commit, which reads the key from the configuration.
NextConfig ==
    \/ \E c \in ConfigInputs : SaveConfigReplace(c)
    \/ \E written \in BOOLEAN : SaveConfigPersist(written)
    \/ \E readable \in BOOLEAN : LoadConfigFromFile(readable)
    \/ GetConfig
    \/ \E p \in PathInputs : ManualRunCommit(p)
    \/ EditFiles
    \/ RunOpen(Manual)
    \/ RunCredential(Manual)
    \/ \E rc \in CommandResults : RunStage(Manual, rc)
    \/ \E spawned \in BOOLEAN, d \in DiffOutputs :
          RunDiff(Manual, spawned, d.stat, d.body)
    \/ \E resp \in Responses : RunSend(Manual, resp)
    \/ \E rc \in CommandResults : RunCommitStep(Manual, rc)
    \/ \E rc \in CommandResults : RunPush(Manual, rc)

SpecConfig == Init /\ [][NextConfig]_vars

\* The texts: the manual invocation of run_commit with the wide sets of
\* outputs of the diffs and of generated texts.
WideResponses ==
    Responses \cup {Resp(TRUE, TRUE, TRUE, <<>>, TRUE, << <<t>> >>) : t \in TextInputs}

NextText ==
    \/ \E c \in PipelineConfigs : SaveConfigReplace(c)
    \/ \E written \in BOOLEAN : SaveConfigPersist(written)
    \/ \E p \in PathInputs : ManualRunCommit(p)
    \/ EditFiles
    \/ RunOpen(Manual)
    \/ RunCredential(Manual)
    \/ \E rc \in CommandResults : RunStage(Manual, rc)
    \/ \E spawned \in BOOLEAN, d \in WideDiffOutputs :
          RunDiff(Manual, spawned, d.stat, d.body)
    \/ \E resp \in WideResponses : RunSend(Manual, resp)
    \/ \E rc \in CommandResults : RunCommitStep(Manual, rc)
    \/ \E rc \in CommandResults : RunPush(Manual, rc)

SpecText == Init /\ [][NextText]_vars

\* The mutexes: every command and the loop, instruction by instruction.
NextLocks ==
    \/ \E t \in Tasks : Acquire(t)
    \/ \E t \in Tasks : Release(t)
    \/ \E t \in Tasks : Proceed(t)

SpecLocks == Init /\ [][NextLocks]_vars

----------------------------------------------------------------------------
\* Properties

\* The loop tasks alive.
AliveLoops == {l \in Loops : loop[l].pc # "free"}

\* The latest step returned from run_commit invocation r.
ReturnedFrom(r) ==
    output # <<>> /\ output[1].cmd = "run_commit" /\ output[1].who = r

\* text occurs in whole, in order, inside t.
Contains(t, text) ==
    \E i \in 1..(Len(t) + 1) :
        /\ i + Len(text) - 1 <= Len(t)
        /\ SubSeq(t, i, i + Len(text) - 1) = text

\* C1: in every reachable state at most one scheduler loop task is alive.
C1_AtMostOneLoop == Cardinality(AliveLoops) <= 1

\* C2: a loop that was alive when stop_auto_commit was called starts no run at
\* its next tick and ends at that tick, whatever was called in between.
C2_StoppedLoopEndsAtNextTick ==
    [][\A l \in Loops :
          (loop[l].stop_seen /\ loop[l].pc = "wait" /\ loop'[l].pc # "wait")
              => (loop'[l].pc = "free" /\ run'[l].pc = "idle")]_vars

\* C3: run_commit returns Ok(message) only if the commit and the push both
\* ended with a zero exit status.
C3_OkOnlyAfterZeroCommitAndPush ==
    \A r \in Runs :
        (ReturnedFrom(r) /\ output[1].ok /\ output[1].site = "end")
            => (output[1].commit_rc = "zero" /\ output[1].push_rc = "zero")

\* C4: a run that finds the repository without pending changes returns the
\* no-op outcome there, having staged, posted, committed and pushed nothing,
\* emits nothing, and leaves the repository as it was.
C4_NoChangesIsNoOp ==
    [][\A r \in Runs :
          (/\ run[r].pc = "open"
           /\ run[r].path = RepoDir
           /\ ~repo.wt /\ ~repo.index
           /\ run'[r] # run[r])
              => (/\ ReturnedFrom(r)'
                  /\ output'[1].ok
                  /\ output'[1].text = Sentinel
                  /\ output'[1].did = {}
                  /\ output'[1].events = <<>>
                  /\ run'[r].pc = "idle"
                  /\ repo' = repo)]_vars

\* C4's case: a loop's run has returned the no-op outcome while the local
\* branch holds a commit.
C4_Witness ==
    /\ ReturnedFrom(1)
    /\ output[1].site = "status"
    /\ repo.ahead

\* C5: a run that reads an empty key from the configuration, after it found
\* pending changes, returns an error there: it has staged, posted, committed
\* and pushed nothing and the repository is as it was.
C5_EmptyKeyAbortsBeforeMutation ==
    [][\A r \in Runs :
          (/\ run[r].pc = "credential"
           /\ config.gemini_api_key = ""
           /\ run'[r] # run[r])
              => (/\ ReturnedFrom(r)'
                  /\ ~output'[1].ok
                  /\ output'[1].site = "credential"
                  /\ output'[1].did = {}
                  /\ run'[r].pc = "idle"
                  /\ repo' = repo)]_vars

\* C5's case: a run has returned the error for the empty key and the working
\* tree still has its unstaged changes.
C5_Witness ==
    /\ \E r \in Runs : ReturnedFrom(r) /\ output[1].site = "credential"
    /\ repo.wt
    /\ ~repo.index

\* The response invocation r received in the latest step, if any.
Received(r) ==
    IF run[r].resp # <<>> THEN run[r].resp
    ELSE IF ReturnedFrom(r) THEN output[1].resp
    ELSE <<>>

\* The latest step of invocation r received a response with a non-success
\* status.
GotNonSuccess(r) ==
    /\ Received(r) # <<>>
    /\ Received(r)[1].transport
    /\ ~Received(r)[1].success

\* C6 as stated: on a non-success status the run returns an error that
\* contains the response body.
C6_ErrorContainsBody ==
    \A r \in Runs :
        (ReturnedFrom(r) /\ GotNonSuccess(r))
            => Contains(output[1].text, output[1].resp[1].body)

\* C6 amended: on a non-success status the run returns an error made of
\* "Gemini API error: " and the response body, or of "Gemini API error: " alone
\* when the body could not be read; it has not committed or pushed, and the
\* repository, with what `git add .` staged, is as it was.
C6_ApiErrorAborts ==
    [][\A r \in Runs :
          (run[r].pc = "send" /\ run'[r] # run[r] /\ GotNonSuccess(r)')
              => (/\ ReturnedFrom(r)'
                  /\ ~output'[1].ok
                  /\ output'[1].site = "status_code"
                  /\ output'[1].text =
                        IF output'[1].resp[1].body_read
                        THEN <<"Gemini API error: ">> \o output'[1].resp[1].body
                        ELSE <<"Gemini API error: ">>
                  /\ output'[1].did = {"stage", "post"}
                  /\ repo' = repo)]_vars

\* C6's case: a run has returned the API error and the changes are staged.
C6_Witness ==
    /\ \E r \in Runs : ReturnedFrom(r) /\ output[1].site = "status_code"
                        /\ Contains(output[1].text, <<"invalid key">>)
    /\ repo.index

\* C7: start_auto_commit with timer_running set returns the error, spawns no
\* task, leaves timer_running set and leaves every loop and run as it was.
C7_StartWhileActiveFails ==
    [][\A s \in Starters :
          (starter[s].pc = "snap" /\ timer_running /\ starter'[s].pc = "idle")
              => (/\ output' # <<>>
                  /\ output'[1].cmd = "start_auto_commit"
                  /\ ~output'[1].ok
                  /\ output'[1].text = <<"Timer is already running">>
                  /\ timer_running'
                  /\ loop' = loop
                  /\ run' = run)]_vars

\* C7's case: a start has returned the error while a loop is in a run.
C7_Witness ==
    /\ output # <<>>
    /\ output[1].cmd = "start_auto_commit"
    /\ ~output[1].ok
    /\ \E l \in Loops : loop[l].pc = "run"

\* What C8 expects a loop to emit for the outcome of a run.
C8_Expected(o) ==
    IF o.ok /\ o.site = "status" THEN <<>>
    ELSE IF o.ok THEN <<[event |-> "commit-status", payload |-> o.text]>>
    ELSE <<[event |-> "commit-error", payload |-> o.text]>>

\* C8: for each run of a loop, one "commit completed" event with the message
\* when it succeeded with a message, whatever its text; no event for the no-op
\* outcome; one "commit failed" event with the error text when it failed.
C8_OneEventPerOutcome ==
    \A l \in Loops : ReturnedFrom(l) => output[1].events = C8_Expected(output[1])

\* C9: the interval and path of a loop are those of the configuration when
\* its start_auto_commit read them; while the task lives they and its period
\* do not change, and each of its runs is on that path.
C9_SnapshotIsStable ==
    [][/\ \A s \in Starters :
            (starter[s].pc = "idle" /\ starter'[s].pc = "snap")
                => (/\ starter'[s].interval_minutes = config.interval_minutes
                    /\ starter'[s].repo_path = config.repo_path)
       /\ \A l \in Loops :
            /\ (loop[l].pc = "free" /\ loop'[l].pc # "free")
                  => \E s \in Starters :
                        /\ starter[s].pc = "snap"
                        /\ loop'[l].interval_minutes = starter[s].interval_minutes
                        /\ loop'[l].repo_path = starter[s].repo_path
            /\ (loop[l].pc # "free" /\ loop'[l].pc # "free")
                  => (/\ loop'[l].interval_minutes = loop[l].interval_minutes
                      /\ loop'[l].repo_path = loop[l].repo_path
                      /\ loop'[l].period =
                            IF loop[l].pc = "new" /\ loop'[l].pc = "wait"
                            THEN loop[l].interval_minutes * 60
                            ELSE loop[l].period)
            /\ (loop[l].pc = "wait" /\ loop'[l].pc = "run")
                  => run'[l].path = loop[l].repo_path]_vars

\* C9's case: a loop starts a run on its path and with its interval after the
\* configuration has got another path and another interval.
C9_Witness ==
    \E l \in Loops :
        /\ loop[l].pc = "run"
        /\ run[l].pc = "open"
        /\ run[l].path # config.repo_path
        /\ loop[l].interval_minutes # config.interval_minutes
        /\ loop[l].period # config.interval_minutes * 60

\* C10: a run of a loop that stop_auto_commit was called during goes on to
\* its outcome, which the loop handles, before the task ends.
C10_StopNeverCutsARun ==
    [][\A l \in Loops :
          (loop[l].pc = "run" /\ loop[l].stop_in_run /\ loop'[l].pc # "run")
              => (loop'[l].pc = "wait" /\ ReturnedFrom(l)')]_vars

\* C11: a run whose `git commit` ended with a non-zero exit status executes no
\* later stage: it does not push.
C11_NoStageAfterFailure ==
    \A r \in Runs :
        (ReturnedFrom(r) /\ output[1].commit_rc = "nonzero")
            => "push" \notin output[1].did

\* C17: whenever timer_running is set, a loop task is alive.
C17_ActiveImpliesLoopAlive == timer_running => AliveLoops # {}

\* C18: while the local branch holds an unpublished commit and nothing is
\* pending, a run that reads the status returns the no-op outcome there, having
\* pushed nothing, and the commit stays unpublished; the step that publishes a
\* commit is the push of a run that found pending changes at its status check.
C18_UnpublishedCommitWaits ==
    [][/\ \A r \in Runs :
            (/\ run[r].pc = "open"
             /\ run[r].path = RepoDir
             /\ repo.ahead /\ ~repo.wt /\ ~repo.index
             /\ run'[r] # run[r])
                => (/\ ReturnedFrom(r)'
                    /\ output'[1].ok
                    /\ output'[1].site = "status"
                    /\ "push" \notin output'[1].did
                    /\ repo'.ahead)
       /\ (repo.ahead /\ ~repo'.ahead)
            => \E r \in Runs :
                  /\ run[r].pc = "push"
                  /\ "stage" \in run[r].did
                  /\ ReturnedFrom(r)'
                  /\ output'[1].push_rc = "zero"]_vars

\* C18's case: the manual run has returned the no-op outcome at the status
\* check, with nothing pending, while a commit is unpublished.
C18_Witness ==
    /\ ReturnedFrom(Manual)
    /\ output[1].site = "status"
    /\ repo.ahead /\ ~repo.wt /\ ~repo.index

\* C15: the check of timer_running and its assignment are one step. A start
\* that finds it unset sets it, spawns one task and returns Ok; a start that
\* finds it set returns the error and spawns nothing; no step spawns two tasks,
\* and a task is spawned only in a step that sets timer_running.
C15_CheckAndSetIsAtomic ==
    [][/\ \A s \in Starters :
            (starter[s].pc = "snap" /\ starter'[s].pc = "idle")
                => (/\ output' # <<>>
                    /\ output'[1].cmd = "start_auto_commit"
                    /\ output'[1].who = s
                    /\ timer_running'
                    /\ IF timer_running
                       THEN /\ ~output'[1].ok
                            /\ output'[1].text = <<"Timer is already running">>
                            /\ loop' = loop
                       ELSE /\ output'[1].ok
                            /\ Cardinality({l \in Loops : loop'[l] # loop[l]}) = 1
                            /\ \A l \in Loops :
                                  loop'[l] # loop[l]
                                      => (loop[l].pc = "free" /\ loop'[l].pc = "new"))
       /\ \A l \in Loops :
            (loop[l].pc = "free" /\ loop'[l].pc # "free")
                => (~timer_running /\ timer_running')]_vars

\* C15's case: of two calls in progress with timer_running unset, one has
\* just returned Ok while the other is still before its check.
C15_Witness ==
    \E s, t \in Starters :
        /\ s # t
        /\ starter[t].pc = "snap"
        /\ output # <<>>
        /\ output[1].cmd = "start_auto_commit"
        /\ output[1].who = s
        /\ output[1].ok

\* C20: save_config that cannot persist returns an error, leaves the file as
\* it was and leaves in memory the configuration it was called with; get_config
\* returns the configuration in memory, and a run reads its key from it.
C20_FailedSaveKeepsNewConfig ==
    [][/\ (saving # <<>> /\ saving' = <<>>)
            => (/\ output' # <<>>
                /\ output'[1].cmd = "save_config"
                /\ config' = saving[1]
                /\ ~output'[1].ok => file' = file
                /\ output'[1].ok => file' = saving)
       /\ (output' # <<>> /\ output'[1].cmd = "get_config")
            => (output'[1].config = <<config>> /\ config' = config)
       /\ \A r \in Runs :
            (run[r].pc = "credential" /\ run'[r].pc = "stage")
                => run'[r].api_key = config.gemini_api_key]_vars

\* C20's case: save_config has returned the error, and the file holds another
\* configuration than the one in memory.
C20_Witness ==
    /\ output # <<>>
    /\ output[1].cmd = "save_config"
    /\ ~output[1].ok
    /\ file # <<>>
    /\ file[1] # config

\* The length in characters.
RECURSIVE CharLen(_)
CharLen(t) == IF t = <<>> THEN 0 ELSE Head(t).n + CharLen(Tail(t))

\* The first k characters of t.
RECURSIVE TakeChars(_, _)
TakeChars(t, k) ==
    IF k = 0 \/ t = <<>> THEN <<>>
    ELSE IF k >= Head(t).n
    THEN <<Head(t)>> \o TakeChars(Tail(t), k - Head(t).n)
    ELSE <<Seg(Head(t).w, k)>>

\* What C12 expects for diff_text: the stat section, and the diff body or,
\* when it is longer than the limit, its first DiffLimit characters.
C12_Expected(diff_stat, diff_content) ==
    Concat(Concat(diff_stat, Separator),
           IF CharLen(diff_content) > DiffLimit
           THEN TakeChars(diff_content, DiffLimit)
           ELSE diff_content)

\* C12: a run whose two diffs were produced goes on to the request with the
\* text C12 expects.
C12_ForwardsStatAndFirstChars ==
    [][\A r \in Runs :
          (run[r].pc = "diff" /\ run'[r] # run[r] /\ ~ReturnedFrom(r)')
              => (/\ run'[r].pc = "send"
                  /\ run'[r].diff # <<>>
                  /\ run'[r].diff[1].text =
                        C12_Expected(run'[r].diff[1].stat, run'[r].diff[1].body))]_vars

\* A text that begins and ends with the same straight quote.
C13_Wrapped(t) == Len(t) >= 2 /\ t[1] \in {"\"", "'"} /\ t[Len(t)] = t[1]

\* What C13 expects of the sanitization of a generated text: without the
\* surrounding whitespace and, when what is left is wrapped in one pair of
\* quotes, without that pair and the whitespace next to it.
C13_Expected(text) ==
    LET t == Trim(text) IN
        IF C13_Wrapped(t) THEN Trim(SubSeq(t, 2, Len(t) - 1)) ELSE t

\* C13: the message a run commits with is the generated text without one
\* wrapping pair of quotes, when it is wrapped in one pair only, and the trimmed
\* generated text when it is not wrapped in a pair.
C13_SanitizeRemovesOnePair ==
    \A r \in Runs :
        (run[r].pc = "commit" /\ run[r].resp # <<>>)
            => LET text == run[r].resp[1].candidates[1][1]
                   inner == Trim(SubSeq(Trim(text), 2, Len(Trim(text)) - 1)) IN
                  (C13_Wrapped(Trim(text)) => ~C13_Wrapped(inner))
                      => run[r].msg = C13_Expected(text)

\* C14: the text forwarded in the request is no longer than the limit, in
\* characters.
C14_ForwardedTextWithinBudget ==
    \A r \in Runs : run[r].diff # <<>> => CharLen(run[r].diff[1].text) <= DiffLimit

\* C16: a task that is at an instruction that blocks or awaits (file system,
\* git command, network, timer) holds no mutex.
C16_NoLockAcrossBlocking ==
    \A t \in Tasks : Current(t).op \in BlockingOps => tasks[t].held = {}

\* Task t is at a lock of a mutex that a task holds.
C19_Waits(t) == Current(t).op = "lock" /\ Holders(Current(t).arg) # {}

\* C19: no task holds both mutexes, and no task waits for a mutex whose holder
\* is waiting for a mutex: some task can always take its next step.
C19_NoTaskHoldsBothLocks ==
    /\ \A t \in Tasks : Cardinality(tasks[t].held) <= 1
    /\ \A t \in Tasks :
          C19_Waits(t) => \A h \in Holders(Current(t).arg) : ~C19_Waits(h)
    /\ \E t \in Tasks : ~C19_Waits(t)

\* C19's case: both mutexes are held, by two tasks, while start_auto_commit
\* waits for the configuration and the loop waits for timer_running.
C19_Witness ==
    /\ Holders("config") # {}
    /\ Holders("timer_running") # {}
    /\ Current("start_auto_commit") = Ins("lock", "config")
    /\ tasks["loop"].pc = 2
    /\ C19_Waits("start_auto_commit")
    /\ C19_Waits("loop")

====
